---- MODULE Spec2Model ----
(***************************************************************************)
(* Tree support generation of CuraEngine (src/TreeSupport.cpp).            *)
(*                                                                         *)
(* The model follows generateSupportAreas: collisionAreas,                 *)
(* propagateCollisionAreas, the internal guide, generateContactPoints,     *)
(* dropNodes and drawCircles, on the cross-section of the print along the  *)
(* X axis: a Point is its X coordinate in microns, a polygon is a closed   *)
(* interval <<lo, hi>> with lo < hi, and a Polygons value is a finite set  *)
(* of pairwise disjoint, non-touching intervals.                           *)
(*                                                                         *)
(* Spec is the whole of generateSupportAreas; SpecFields stops when the    *)
(* collision, avoidance and internal guide areas are built; SpecLedge is   *)
(* Spec on the prints that have a narrow ledge under the overhang.         *)
(***************************************************************************)
EXTENDS Integers, FiniteSets, Sequences, TLC

(***************************************************************************)
(* Bounds of the model.                                                    *)
(***************************************************************************)
MaxLayers == 4          \* storage.support.supportLayers.size()
MaxRoofLayers == 1      \* largest support_roof_height / layer_height drawn

(***************************************************************************)
(* Settings read from the storage (microns).                               *)
(***************************************************************************)
layer_height == 200
maximum_move_distance == 200        \* (coord_t)(tan(support_tree_angle) * layer_height)
branch_radius == 400                \* support_tree_branch_diameter / 2
radius_sample_resolution == 200     \* support_tree_collision_resolution
xy_distance == 100                  \* support_xy_distance
radius_growth == 50                 \* sin(support_tree_branch_diameter_angle) * layer_height
z_distance_top == 0                 \* support_top_distance
z_distance_bottom == 0              \* support_bottom_distance
line_width == 400                   \* support_line_width
adhesion_size == 0                  \* adhesion_type none
machine_min == 0                    \* storage.machine_size.min.x
machine_max == 5600                 \* storage.machine_size.max.x
volume_border_width == 1000000      \* 1m around the print volume
rounding_margin == 100              \* "100 micron extra for rounding errors"
overhang_step == 200                \* tan(support_angle) * layer_height
smooth_remove_length == 5           \* smooth(5)
circle_side_length == 247           \* 2 * branch_radius * sin(pi / CIRCLE_RESOLUTION)
support_bottom_height == 400        \* support_bottom_height
support_interface_skip_height == 200 \* support_interface_skip_height
floor_offset == 10                  \* floor_layer.offset(10)

Layers == 0 .. (MaxLayers - 1)

(***************************************************************************)
(* utils/math.h and small helpers.                                         *)
(***************************************************************************)
Max(S) == CHOOSE x \in S : \A y \in S : y <= x
Min(S) == CHOOSE x \in S : \A y \in S : x <= y
MaxOf(a, b) == IF a >= b THEN a ELSE b
MinOf(a, b) == IF a <= b THEN a ELSE b
Abs(x) == IF x < 0 THEN -x ELSE x

\* round_up_divide(dividend, divisor) of utils/math.h, for non-negative arguments
round_up_divide(dividend, divisor) == (dividend + divisor - 1) \div divisor
\* round_divide(dividend, divisor) of utils/math.h
round_divide(dividend, divisor) == (dividend + divisor \div 2) \div divisor
\* std::round((float)a / b) for a >= 0, b > 0: halves round away from zero
RoundDiv(a, b) == (2 * a + b) \div (2 * b)
\* Point division truncates towards zero
TruncDiv(a, b) == IF a >= 0 THEN a \div b ELSE -((-a) \div b)

(***************************************************************************)
(* Geometry primitives (utils/polygon.h, utils/polygonUtils.h) on the      *)
(* cross-section.                                                          *)
(***************************************************************************)
RECURSIVE Extend(_, _)
\* the right end of the connected run of intervals of S that covers h
Extend(S, h) ==
    LET hs == {j[2] : j \in {k \in S : k[1] <= h /\ k[2] > h}}
    IN  IF hs = {} THEN h ELSE Extend(S, Max(hs))

\* Polygons::unionPolygons(): overlapping or touching polygons become one
Normalise(S) ==
    LET T == {i \in S : i[1] < i[2]}
        starts == {i[1] : i \in {k \in T : ~ \E j \in T : j[1] < k[1] /\ k[1] <= j[2]}}
    IN  {<<a, Extend(T, a)>> : a \in starts}

unionPolygons(A, B) == Normalise(A \cup B)

\* Polygons::intersection
intersection(A, B) ==
    {i \in {<<MaxOf(a[1], b[1]), MinOf(a[2], b[2])>> : a \in A, b \in B} : i[1] < i[2]}

\* everything of the axis that P leaves free, as Polygons
Far == 10 * volume_border_width
Complement(P) ==
    LET N == Normalise(P)
        ends == {-Far} \cup {i[2] : i \in N}
        nextStart(h) == LET ls == {i[1] : i \in {k \in N : k[1] >= h}}
                        IN  IF ls = {} THEN Far ELSE Min(ls)
    IN  {i \in {<<h, nextStart(h)>> : h \in ends} : i[1] < i[2]}

\* Polygons::difference
difference(A, B) == intersection(Normalise(A), Complement(B))

\* Polygons::offset(distance): Minkowski expansion (distance > 0) or erosion
\* (distance < 0); a polygon eroded to nothing disappears
offset(P, distance) ==
    Normalise({<<i[1] - distance, i[2] + distance>> : i \in Normalise(P)})

\* Polygons::smooth(remove_length): removes the middle vertices of zigzags whose
\* middle segment is shorter than remove_length; a polygon of the cross-section
\* is convex and has no zigzag, so every polygon is kept as it is
smooth(P, remove_length) == {i \in P : i[1] < i[2]}

\* Polygons::inside(p, border_result)
inside(P, p, border_result) ==
    \E i \in P : IF border_result THEN i[1] <= p /\ p <= i[2]
                                  ELSE i[1] < p /\ p < i[2]

\* the boundary points of P
Border(P) == {i[1] : i \in P} \cup {i[2] : i \in P}

\* PolygonUtils::findClosest(from, polygons).location; from itself when there
\* is no polygon
findClosest(from, P) ==
    IF P = {} THEN from
    ELSE LET d == Min({Abs(e - from) : e \in Border(P)})
         IN  Min({e \in Border(P) : Abs(e - from) = d})

\* PolygonUtils::moveOutside(polygons, from, distance, max_dist2): a point that is
\* not strictly outside is moved to the nearest place `distance` beyond the border,
\* provided that this moves it by at most sqrt(max_dist2); otherwise it stays
moveOutside(P, from, distance, max_dist2) ==
    IF ~ inside(P, from, TRUE) THEN from
    ELSE LET i == CHOOSE k \in P : k[1] <= from /\ from <= k[2]
             left == i[1] - distance
             right == i[2] + distance
             target == IF from - left <= right - from THEN left ELSE right
         IN  IF (target - from) * (target - from) <= max_dist2 THEN target ELSE from

\* PolygonUtils::moveInside(polygon, from, distance, max_dist2) with distance 0:
\* a point outside the polygon and within sqrt(max_dist2) of its border is moved
\* onto the border
moveInside(poly, from, max_dist2) ==
    IF poly[1] <= from /\ from <= poly[2] THEN from
    ELSE LET e == IF from < poly[1] THEN poly[1] ELSE poly[2]
         IN  IF (e - from) * (e - from) <= max_dist2 THEN e ELSE from

\* PolygonUtils::moveInside(polygon, from) with the default, unbounded max_dist2
moveInsideAny(poly, from) ==
    IF from < poly[1] THEN poly[1] ELSE IF from > poly[2] THEN poly[2] ELSE from

\* PolygonUtils::ensureInsideOrOutside(polygons, from, closest_point, preferred_dist_inside):
\* the point preferred_dist_inside inwards of the closest border point, when that
\* point lies inside the polygons; otherwise from is left where it is
ensureInsideOrOutside(P, from, closest_point_on_border, preferred_dist_inside) ==
    IF P = {} THEN from
    ELSE LET target == IF \E i \in P : i[1] = closest_point_on_border
                       THEN closest_point_on_border + preferred_dist_inside
                       ELSE closest_point_on_border - preferred_dist_inside
         IN  IF inside(P, target, TRUE) THEN target ELSE from

\* normal(p, len): the vector p scaled to length len
normal(p, len) == IF p > 0 THEN len ELSE IF p < 0 THEN -len ELSE 0

\* MinimumSpanningTree(points).adjacentNodes(p): on a line the minimum spanning
\* tree joins every point to its nearest point on either side
adjacentNodes(points, p) ==
    LET below == {q \in points : q < p}
        above == {q \in points : q > p}
    IN  (IF below = {} THEN {} ELSE {Max(below)}) \cup
        (IF above = {} THEN {} ELSE {Min(above)})

(***************************************************************************)
(* Derived settings.                                                       *)
(***************************************************************************)
\* dropNodes / drawCircles: the number of layers over which the tip is tapered
tip_layers == branch_radius \div layer_height
\* collisionAreas: the radius of the widest branch and the number of radius samples
\* the growth of the widest branch without the radius it grows from
maximum_radius_growth_only == (MaxLayers * branch_radius * radius_growth) \div branch_radius
maximum_radius == branch_radius + (MaxLayers * branch_radius * radius_growth) \div branch_radius
NumSamples == RoundDiv(maximum_radius, radius_sample_resolution) + 1
Samples == 0 .. (NumSamples - 1)
\* generateContactPoints: support is always one layer below the overhang
z_distance_top_layers == round_up_divide(z_distance_top, layer_height) + 1
half_overhang_distance == overhang_step \div 2
\* drawCircles
z_distance_bottom_layers == round_up_divide(z_distance_bottom, layer_height)

\* dropNodes: the radius of a branch d layers below its tip
branch_radius_node(d) ==
    IF d > tip_layers
    THEN branch_radius + (branch_radius * d * radius_growth) \div branch_radius
    ELSE (branch_radius * d) \div tip_layers
branch_radius_sample(d) == RoundDiv(branch_radius_node(d), radius_sample_resolution)

\* TreeSupport::TreeSupport: a border of 1m around the print volume
machine_volume_border ==
    {<<machine_min + adhesion_size - volume_border_width, machine_min + adhesion_size>>,
     <<machine_max - adhesion_size, machine_max - adhesion_size + volume_border_width>>}

(***************************************************************************)
(* The inputs: the outlines of the sliced mesh on the cross-section, and   *)
(* the settings each stage reads when it starts.                           *)
(***************************************************************************)
Pillar == {<<1600, 2000>>}
Bump == {<<1600, 2000>>, <<2700, 2900>>}
Cap == {<<1600, 2000>>, <<2800, 3600>>}
Shapes == {Pillar, Bump, Cap}
\* a print with a narrow ledge under the cap instead of the bump
Ledge == {<<1600, 2000>>, <<3100, 3300>>}
ShapesLedge == {Pillar, Ledge, Cap}
Spreads == {500, 600, 800}
RoofHeights == {k * layer_height : k \in 1 .. MaxRoofLayers}

VARIABLES
    outlines,                 \* storage.getLayerOutlines(layer_nr, false)
    pc,                       \* the stage of generateSupportAreas; in dropNodes, the pass
    model_collision,
    model_avoidance,
    model_internal_guide,
    point_spread,             \* support_tree_branch_distance, as generateContactPoints read it
    support_roof_enable,      \* as generateContactPoints read it
    support_roof_height,      \* as generateContactPoints read it
    contact_nodes,
    support_rests_on_model,   \* support_type = everywhere, as dropNodes read it
    layer_nr,                 \* dropNodes: the layer being dropped
    nodes_per_part,           \* dropNodes: the buckets of layer_nr
    group_index,              \* dropNodes: the bucket being processed
    todo,                     \* dropNodes: positions the running pass has still to visit
    to_delete,                \* dropNodes: positions merged away in pass 1
    descents,                 \* every next_node built so far, with the node it came from
    support_bottom_enable,    \* as drawCircles read it
    drawn,                    \* drawCircles: the layers whose iteration has run
    support_infill_parts,     \* storage.support.supportLayers[l].support_infill_parts
    support_roof,             \* storage.support.supportLayers[l].support_roof
    support_bottom,           \* storage.support.supportLayers[l].support_bottom
    layer_nr_max_filled_layer,
    generated                 \* storage.support.generated

fields == <<model_collision, model_avoidance, model_internal_guide>>
contact_settings == <<point_spread, support_roof_enable, support_roof_height>>
drop_state == <<layer_nr, nodes_per_part, group_index, todo, to_delete>>
output == <<support_infill_parts, support_roof, support_bottom,
            layer_nr_max_filled_layer, generated>>

vars == <<outlines, pc, fields, contact_settings, contact_nodes, support_rests_on_model,
          drop_state, descents, support_bottom_enable, drawn, output>>

NoField == [s \in Samples |-> [l \in Layers |-> {}]]
NoLayers == [l \in Layers |-> {}]

\* the state before collisionAreas, for prints whose layers have these outlines
InitWith(shapes) ==
    /\ outlines \in [Layers -> shapes]
    /\ pc = "collisionAreas"
    /\ model_collision = NoField
    /\ model_avoidance = NoField
    /\ model_internal_guide = NoField
    /\ point_spread = Min(Spreads)
    /\ support_roof_enable = FALSE
    /\ support_roof_height = Min(RoofHeights)
    /\ contact_nodes = NoLayers
    /\ support_rests_on_model = FALSE
    /\ layer_nr = MaxLayers - 1
    /\ nodes_per_part = <<>>
    /\ group_index = 0
    /\ todo = {}
    /\ to_delete = {}
    /\ descents = {}
    /\ support_bottom_enable = FALSE
    /\ drawn = {}
    /\ support_infill_parts = NoLayers
    /\ support_roof = NoLayers
    /\ support_bottom = NoLayers
    /\ layer_nr_max_filled_layer = -1
    /\ generated = FALSE

Init == InitWith(Shapes)
InitLedge == InitWith(ShapesLedge)

(***************************************************************************)
(* collisionAreas                                                          *)
(***************************************************************************)
CollisionLayer(radius_sample, l) ==
    offset(unionPolygons(outlines[l], machine_volume_border),
           xy_distance + radius_sample * radius_sample_resolution)

collisionAreas ==
    /\ pc = "collisionAreas"
    /\ model_collision' = [s \in Samples |-> [l \in Layers |-> CollisionLayer(s, l)]]
    /\ pc' = "propagateCollisionAreas"
    /\ UNCHANGED <<outlines, model_avoidance, model_internal_guide, contact_settings,
                   contact_nodes, support_rests_on_model, drop_state, descents,
                   support_bottom_enable, drawn, output>>

(***************************************************************************)
(* propagateCollisionAreas                                                 *)
(***************************************************************************)
\* the propagation without the offset by the maximum move distance
AvoidanceLayerNotEroded(previous, collision) ==
    unionPolygons(smooth(previous, smooth_remove_length), collision)

\* the propagation that forgets the layer below
AvoidanceLayerCollisionOnly(previous, collision) == collision

\* the propagation that erodes the collision area of the layer as well
AvoidanceLayerErodedWhole(previous, collision) ==
    smooth(offset(unionPolygons(previous, collision), -maximum_move_distance),
           smooth_remove_length)

\* one step of the propagation: the avoidance of a layer from that of the layer below
AvoidanceLayer(previous, collision) ==
    unionPolygons(smooth(offset(previous, -maximum_move_distance), smooth_remove_length),
                  collision)

RECURSIVE Avoidance(_, _)
\* the avoidance of layers 0 .. l of one radius sample, as a sequence (layer 0 first)
Avoidance(collision, l) ==
    IF l = 0 THEN <<collision[0]>>
    ELSE LET below == Avoidance(collision, l - 1)
         IN  Append(below, AvoidanceLayer(below[l], collision[l]))

propagateCollisionAreas ==
    /\ pc = "propagateCollisionAreas"
    /\ model_avoidance' =
           [s \in Samples |->
               LET column == Avoidance(model_collision[s], MaxLayers - 1)
               IN  [l \in Layers |-> column[l + 1]]]
    /\ pc' = "internalGuide"
    /\ UNCHANGED <<outlines, model_collision, model_internal_guide, contact_settings,
                   contact_nodes, support_rests_on_model, drop_state, descents,
                   support_bottom_enable, drawn, output>>

(***************************************************************************)
(* generateSupportAreas: the internal guide                                *)
(***************************************************************************)
\* the internal guide without the difference with the collision area
InternalGuideLayerWhole(avoidance, collision) == avoidance

InternalGuideLayer(avoidance, collision) == difference(avoidance, collision)

internalGuide ==
    /\ pc = "internalGuide"
    /\ model_internal_guide' =
           [s \in Samples |-> [l \in Layers |->
               InternalGuideLayer(model_avoidance[s][l], model_collision[s][l])]]
    /\ pc' = "generateContactPoints"
    /\ UNCHANGED <<outlines, model_collision, model_avoidance, contact_settings,
                   contact_nodes, support_rests_on_model, drop_state, descents,
                   support_bottom_enable, drawn, output>>

(***************************************************************************)
(* Nodes and contact-node layers.                                          *)
(***************************************************************************)
Node(position, distance_to_top, skin_direction, support_roof_layers_below, to_buildplate) ==
    [position |-> position, distance_to_top |-> distance_to_top,
     skin_direction |-> skin_direction,
     support_roof_layers_below |-> support_roof_layers_below,
     to_buildplate |-> to_buildplate]

Positions(nodes) == {n.position : n \in nodes}
\* std::unordered_set<Node>::find: nodes are equal when their positions are
NodeAt(nodes, position) == CHOOSE n \in nodes : n.position = position

(***************************************************************************)
(* generateContactPoints                                                   *)
(***************************************************************************)
\* mesh.overhang_areas[l]: what a layer's outline leaves unsupported by the layer below
overhang_areas(l) ==
    IF l = 0 THEN {}
    ELSE difference(outlines[l], offset(outlines[l - 1], overhang_step))

\* mesh.bounding_box.flatten()
bounding_box ==
    LET all == UNION {outlines[l] : l \in Layers}
    IN  <<Min({i[1] : i \in all}), Max({i[2] : i \in all})>>

\* the candidates of the grid that lie on the cross-section
grid_points(spread) ==
    {bounding_box[1] + k * spread : k \in 0 .. ((bounding_box[2] - bounding_box[1]) \div spread)}

\* the layers generateContactPoints puts tips on
ContactLayers == {l \in Layers : 1 <= l /\ l < MaxLayers - z_distance_top_layers}

\* the tips generateContactPoints puts under one overhang part
PartContactNodes(overhang_part, l, spread, support_roof_layers) ==
    LET moved == {moveInside(overhang_part, c, half_overhang_distance * half_overhang_distance) :
                     c \in {g \in grid_points(spread) :
                               /\ overhang_part[1] - half_overhang_distance <= g
                               /\ g <= overhang_part[2] + half_overhang_distance}}
        accepted == {c \in moved : /\ inside({overhang_part}, c, TRUE)
                                   /\ ~ inside(model_collision[0][l], c, TRUE)}
        middle == (bounding_box[1] + bounding_box[2]) \div 2
    IN  IF accepted # {}
        THEN {Node(c, 0, (l + z_distance_top_layers) % 2, support_roof_layers, TRUE) : c \in accepted}
        ELSE {Node(moveInsideAny(overhang_part, middle), 0, l % 2, support_roof_layers, TRUE)}

ContactNodes(l, spread, support_roof_layers) ==
    IF l \in ContactLayers
    THEN UNION {PartContactNodes(part, l, spread, support_roof_layers) :
                   part \in overhang_areas(l + z_distance_top_layers)}
    ELSE {}

\* "how many roof layers, if roof is enabled"
SupportRoofLayers(enable, height) == IF enable THEN round_divide(height, layer_height) ELSE 0

generateContactPoints ==
    /\ pc = "generateContactPoints"
    /\ point_spread' \in Spreads
    /\ support_roof_enable' \in BOOLEAN
    /\ support_roof_height' \in IF support_roof_enable' THEN RoofHeights
                                                        ELSE {support_roof_height}
    /\ contact_nodes' =
           [l \in Layers |->
               ContactNodes(l, point_spread',
                            SupportRoofLayers(support_roof_enable', support_roof_height'))]
    /\ pc' = "dropNodes"
    /\ UNCHANGED <<outlines, fields, support_rests_on_model, drop_state, descents,
                   support_bottom_enable, drawn, output>>

(***************************************************************************)
(* insertDroppedNode                                                       *)
(***************************************************************************)
\* the insertion that replaces the node stored at the position
insertDroppedNodeOverwriting(nodes_layer, node) ==
    {n \in nodes_layer : n.position # node.position} \cup {node}

insertDroppedNode(nodes_layer, node) ==
    IF node.position \notin Positions(nodes_layer)
    THEN nodes_layer \cup {node}
    ELSE LET conflicting_node == NodeAt(nodes_layer, node.position)
         IN  (nodes_layer \ {conflicting_node}) \cup
             {[conflicting_node EXCEPT
                 !.distance_to_top = MaxOf(conflicting_node.distance_to_top, node.distance_to_top),
                 !.support_roof_layers_below =
                     MaxOf(conflicting_node.support_roof_layers_below,
                           node.support_roof_layers_below)]}

(***************************************************************************)
(* dropNodes: grouping the nodes of a layer                                *)
(***************************************************************************)
RECURSIVE splitIntoParts(_)
\* Polygons::splitIntoParts(): the parts, here from left to right
splitIntoParts(P) ==
    IF P = {} THEN <<>>
    ELSE LET first == CHOOSE i \in P : \A j \in P : i[1] <= j[1]
         IN  <<first>> \o splitIntoParts(P \ {first})

\* the index of the part a node is put in: the part it is inside of, or else the
\* first of the closest parts
ClosestPart(parts, position) ==
    LET distance2(k) == LET c == findClosest(position, {parts[k]})
                        IN  (position - c) * (position - c)
        holds == {k \in 1 .. Len(parts) : inside({parts[k]}, position, TRUE)}
        best == Min({distance2(k) : k \in 1 .. Len(parts)})
    IN  IF holds # {} THEN Min(holds) - 1
        ELSE Min({k \in 1 .. Len(parts) : distance2(k) = best}) - 1

\* the grouping without the test that drops the nodes that cannot reach the build plate
GroupNodesKeepingAll(nodes, l, rests_on_model) ==
    LET parts == splitIntoParts(model_avoidance[0][l])
        outside == {n \in nodes : n.to_buildplate \/ Len(parts) = 0}
    IN  [g \in 0 .. Len(parts) |->
            IF g = 0 THEN outside
            ELSE {n \in nodes \ outside : ClosestPart(parts, n.position) + 1 = g}]

\* nodes_per_part: bucket 0 goes to the build plate, bucket k + 1 rests on part k
GroupNodes(nodes, l, rests_on_model) ==
    LET parts == splitIntoParts(model_avoidance[0][l])
        kept == {n \in nodes : rests_on_model \/ n.to_buildplate}
        outside == {n \in kept : n.to_buildplate \/ Len(parts) = 0}
    IN  [g \in 0 .. Len(parts) |->
            IF g = 0 THEN outside
            ELSE {n \in kept \ outside : ClosestPart(parts, n.position) + 1 = g}]

(***************************************************************************)
(* dropNodes: the next position and the next node                          *)
(***************************************************************************)
\* bucket 0: "avoid collisions"
AvoidCollisions(next_position, branch_sample, l) ==
    LET maximum_move_between_samples ==
            maximum_move_distance + radius_sample_resolution + rounding_margin
    IN  moveOutside(model_avoidance[branch_sample][l - 1], next_position,
                    radius_sample_resolution + rounding_margin,
                    maximum_move_between_samples * maximum_move_between_samples)

\* buckets 1 and up: "move towards centre of polygon", at most
\* maximum_move_distance away from the node
MoveTowardsCentre(node, next_position, closest_from, branch_sample, l) ==
    LET guide == model_internal_guide[branch_sample][l - 1]
        closest_point_on_border == findClosest(closest_from, guide)
        distance == Abs(node.position - closest_point_on_border)
        moved_inside == ensureInsideOrOutside(guide, next_position, closest_point_on_border,
                                              distance + maximum_move_distance)
        difference_ == moved_inside - node.position
    IN  node.position +
        (IF difference_ * difference_ > maximum_move_distance * maximum_move_distance
         THEN normal(difference_, maximum_move_distance)
         ELSE difference_)

\* the next node that keeps the support_roof_layers_below of the node above
NextNodeKeepingRoof(node, next_position, branch_sample, l) ==
    Node(next_position, node.distance_to_top + 1, node.skin_direction,
         node.support_roof_layers_below,
         ~ inside(model_avoidance[branch_sample][l - 1], next_position, FALSE))

\* the node built for layer l - 1 from a node of layer l and its next position
NextNode(node, next_position, branch_sample, l) ==
    Node(next_position, node.distance_to_top + 1, node.skin_direction,
         node.support_roof_layers_below - 1,
         ~ inside(model_avoidance[branch_sample][l - 1], next_position, FALSE))

(***************************************************************************)
(* dropNodes                                                               *)
(***************************************************************************)
maximum_move_distance2 == maximum_move_distance * maximum_move_distance

\* the settings dropNodes reads before its loop over the layers
dropNodes ==
    /\ pc = "dropNodes"
    /\ support_rests_on_model' \in BOOLEAN
    /\ layer_nr' = MaxLayers - 1
    /\ pc' = "dropLayer"
    /\ UNCHANGED <<outlines, fields, contact_settings, contact_nodes, nodes_per_part,
                   group_index, todo, to_delete, descents, support_bottom_enable, drawn,
                   output>>

\* the loop over the layers ends before layer 0
AfterLayer(l) == IF l - 1 > 0 THEN "dropLayer" ELSE "drawCircles"

\* the buckets that hold nodes, after bucket g
LaterGroups(groups, g) == {k \in DOMAIN groups : k > g /\ groups[k] # {}}

\* the start of a layer: its nodes are grouped per part; buckets without nodes have
\* nothing to iterate over
dropLayer ==
    /\ pc = "dropLayer"
    /\ LET groups == GroupNodes(contact_nodes[layer_nr], layer_nr, support_rests_on_model)
           filled == LaterGroups(groups, -1)
       IN  /\ nodes_per_part' = groups
           /\ to_delete' = {}
           /\ IF filled = {}
              THEN /\ layer_nr' = layer_nr - 1
                   /\ pc' = AfterLayer(layer_nr)
                   /\ group_index' = 0
                   /\ todo' = {}
              ELSE /\ layer_nr' = layer_nr
                   /\ pc' = "pass1"
                   /\ group_index' = Min(filled)
                   /\ todo' = Positions(groups[Min(filled)])
    /\ UNCHANGED <<outlines, fields, contact_settings, contact_nodes, support_rests_on_model,
                   descents, support_bottom_enable, drawn, output>>

\* "we have just two nodes left, and they're very close"
IsDyad(points, position) ==
    LET neighbours == adjacentNodes(points, position)
    IN  /\ Cardinality(neighbours) = 1
        /\ \A q \in neighbours :
              /\ (q - position) * (q - position) < maximum_move_distance2
              /\ Cardinality(adjacentNodes(points, q)) = 1

\* pass 1, the dyad: the node for the next layer at the average position of the two
MergedNode(node, neighbour, g, l) ==
    LET average == TruncDiv(node.position + neighbour, 2)
        branch_sample == branch_radius_sample(node.distance_to_top + 1)
        next_position == IF g = 0
                         THEN AvoidCollisions(average, branch_sample, l)
                         ELSE MoveTowardsCentre(node, average, node.position, branch_sample, l)
    IN  NextNode(node, next_position, branch_sample, l)

\* pass 1, a node with several neighbours: the neighbours that are merged into it
TooClose(points, position) ==
    {q \in adjacentNodes(points, position) :
        (q - position) * (q - position) < maximum_move_distance2}

Descent(node, next_node, which) ==
    [layer |-> layer_nr, group |-> group_index, pass |-> which,
     node |-> node, next_node |-> next_node]

\* one iteration of the first pass over the bucket
firstPass ==
    /\ pc = "pass1"
    /\ \E position \in todo :
          LET group == nodes_per_part[group_index]
              points == Positions(group)
              node == NodeAt(group, position)
              neighbours == adjacentNodes(points, position)
          IN  /\ IF position \in to_delete
                 THEN UNCHANGED <<contact_nodes, to_delete, descents>>
                 ELSE IF IsDyad(points, position)
                 THEN LET next_node == MergedNode(node, CHOOSE q \in neighbours : TRUE,
                                                  group_index, layer_nr)
                      IN  /\ contact_nodes' =
                                 [contact_nodes EXCEPT
                                     ![layer_nr - 1] = insertDroppedNode(@, next_node)]
                          /\ descents' = descents \cup {Descent(node, next_node, 1)}
                          /\ UNCHANGED to_delete
                 ELSE IF Cardinality(neighbours) > 1
                 THEN /\ to_delete' = to_delete \cup TooClose(points, position)
                      /\ UNCHANGED <<contact_nodes, descents>>
                 ELSE UNCHANGED <<contact_nodes, to_delete, descents>>
              /\ IF todo = {position}
                 THEN pc' = "pass2" /\ todo' = points
                 ELSE pc' = pc /\ todo' = todo \ {position}
    /\ UNCHANGED <<outlines, fields, contact_settings, support_rests_on_model, layer_nr,
                   nodes_per_part, group_index, support_bottom_enable, drawn, output>>

\* pass 2: "the branch falls completely inside a collision area"
TooFarInside(node, g, l) ==
    /\ g > 0
    /\ inside(model_collision[0][l], node.position, FALSE)
    /\ LET branch_radius_node_ == branch_radius_node(node.distance_to_top)
           to_outside == findClosest(node.position, model_collision[0][l])
       IN  (node.position - to_outside) * (node.position - to_outside)
               >= branch_radius_node_ * branch_radius_node_

\* pass 2: "move towards the average position of all neighbours"
MovedVertex(points, position) ==
    LET neighbours == adjacentNodes(points, position)
        sum_direction == LET below == {q \in neighbours : q < position}
                             above == {q \in neighbours : q > position}
                         IN  (IF below = {} THEN 0 ELSE Max(below) - position) +
                             (IF above = {} THEN 0 ELSE Min(above) - position)
    IN  IF \/ Cardinality(neighbours) > 1
           \/ /\ Cardinality(neighbours) = 1
              /\ \A q \in neighbours :
                    (q - position) * (q - position) >= maximum_move_distance2
        THEN IF sum_direction * sum_direction <= maximum_move_distance2
             THEN position + sum_direction
             ELSE position + normal(sum_direction, maximum_move_distance)
        ELSE position

\* pass 2: the node for the next layer
MovedNode(node, points, g, l) ==
    LET next_layer_vertex == MovedVertex(points, node.position)
        branch_sample == branch_radius_sample(node.distance_to_top + 1)
        next_position == IF g = 0
                         THEN AvoidCollisions(next_layer_vertex, branch_sample, l)
                         ELSE MoveTowardsCentre(node, next_layer_vertex, next_layer_vertex,
                                                branch_sample, l)
    IN  NextNode(node, next_position, branch_sample, l)

\* one iteration of the second pass over the bucket
secondPass ==
    /\ pc = "pass2"
    /\ \E position \in todo :
          LET group == nodes_per_part[group_index]
              points == Positions(group)
              node == NodeAt(group, position)
              later == LaterGroups(nodes_per_part, group_index)
          IN  /\ IF position \in to_delete \/ TooFarInside(node, group_index, layer_nr)
                 THEN UNCHANGED <<contact_nodes, descents>>
                 ELSE LET next_node == MovedNode(node, points, group_index, layer_nr)
                      IN  /\ contact_nodes' =
                                 [contact_nodes EXCEPT
                                     ![layer_nr - 1] = insertDroppedNode(@, next_node)]
                          /\ descents' = descents \cup {Descent(node, next_node, 2)}
              /\ IF todo # {position}
                 THEN /\ todo' = todo \ {position}
                      /\ UNCHANGED <<pc, layer_nr, group_index, to_delete>>
                 ELSE IF later # {}
                 THEN /\ group_index' = Min(later)
                      /\ todo' = Positions(nodes_per_part[Min(later)])
                      /\ to_delete' = {}
                      /\ pc' = "pass1"
                      /\ UNCHANGED layer_nr
                 ELSE /\ layer_nr' = layer_nr - 1
                      /\ pc' = AfterLayer(layer_nr)
                      /\ todo' = {}
                      /\ UNCHANGED <<group_index, to_delete>>
    /\ UNCHANGED <<outlines, fields, contact_settings, support_rests_on_model,
                   nodes_per_part, support_bottom_enable, drawn, output>>

(***************************************************************************)
(* drawCircles                                                             *)
(***************************************************************************)
\* the settings drawCircles reads before its loop over the layers
drawCircles ==
    /\ pc = "drawCircles"
    /\ support_bottom_enable' \in BOOLEAN
    /\ pc' = "drawLayers"
    /\ UNCHANGED <<outlines, fields, contact_settings, contact_nodes, support_rests_on_model,
                   drop_state, descents, drawn, output>>

\* the corners of a node's circle that lie on the cross-section: in the tip the
\* circle is scaled by 0.5 + scale / 2 along the axis, below the tip by
\* 1 + (distance_to_top - tip_layers) * diameter_angle_scale_factor
CircleRadius(node) ==
    IF node.distance_to_top < tip_layers
    THEN (branch_radius * (tip_layers + node.distance_to_top + 1)) \div (2 * tip_layers)
    ELSE branch_radius +
         (branch_radius * (node.distance_to_top - tip_layers) * radius_growth) \div branch_radius

Circle(node) == <<node.position - CircleRadius(node), node.position + CircleRadius(node)>>

\* which nodes are drawn as support roof
IsRoof(node) == node.support_roof_layers_below >= 0

\* Polygons::simplify(smallest_line_segment, allowed_error_distance): a polygon
\* whose extent is a segment shorter than smallest_line_segment is removed when
\* that moves no vertex by more than allowed_error_distance
simplify(P, smallest_line_segment, allowed_error_distance) ==
    {i \in P : ~ (/\ i[2] - i[1] < smallest_line_segment
                  /\ i[2] - i[1] <= allowed_error_distance)}

\* "layer to test against to create a Z-distance"
z_collision_layer(l) == MaxOf(0, l - z_distance_bottom_layers + 1)

\* the support and roof areas of a layer, before the support floor is subtracted
RoofLayer(l) ==
    LET roof_layer == unionPolygons(support_roof[l],
                                    {Circle(n) : n \in {m \in contact_nodes[l] : IsRoof(m)}})
    IN  IF MaxLayers > z_collision_layer(l)
        THEN difference(roof_layer, model_collision[0][z_collision_layer(l)])
        ELSE roof_layer

\* the support area with the model of the layer itself subtracted
SupportLayerLessOwnLayer(l) ==
    LET circles == Normalise({Circle(n) : n \in {m \in contact_nodes[l] : ~ IsRoof(m)}})
        roof_layer == unionPolygons(support_roof[l],
                                    {Circle(n) : n \in {m \in contact_nodes[l] : IsRoof(m)}})
        without_model == difference(difference(circles, roof_layer), model_collision[0][l])
        maximum_scale == ((MaxLayers - l - tip_layers) * radius_growth * circle_side_length)
                             \div branch_radius
    IN  simplify(without_model, circle_side_length + maximum_scale, line_width \div 4)

SupportLayer(l) ==
    LET circles == Normalise({Circle(n) : n \in {m \in contact_nodes[l] : ~ IsRoof(m)}})
        roof_layer == unionPolygons(support_roof[l],
                                    {Circle(n) : n \in {m \in contact_nodes[l] : IsRoof(m)}})
        without_roof == difference(circles, roof_layer)
        without_model == IF MaxLayers > z_collision_layer(l)
                         THEN difference(without_roof, model_collision[0][z_collision_layer(l)])
                         ELSE without_roof
        \* (double)(supportLayers.size() - layer_nr - tip_layers) * diameter_angle_scale_factor
        maximum_scale == ((MaxLayers - l - tip_layers) * radius_growth * circle_side_length)
                             \div branch_radius
    IN  simplify(without_model, circle_side_length + maximum_scale, line_width \div 4)

\* the support floor of a layer: the support above the model outlines sampled below it
support_interface_skip_layers == round_up_divide(support_interface_skip_height, layer_height)
support_bottom_height_layers == round_up_divide(support_bottom_height, layer_height)
FloorSamples(l) ==
    {MaxOf(0, l - layers_below - z_distance_bottom_layers) :
        layers_below \in {k \in 0 .. (support_bottom_height_layers - 1) :
                             k % support_interface_skip_layers = 0}}
    \cup {MaxOf(0, l - support_bottom_height_layers - z_distance_bottom_layers)}

FloorLayer(l, support_layer) ==
    support_bottom[l] \cup
    UNION {intersection(support_layer, outlines[sample_layer]) : sample_layer \in FloorSamples(l)}

\* the loop whose iterations store their own layer in layer_nr_max_filled_layer
drawLayerStoringOwnLayer ==
    /\ pc = "drawLayers"
    /\ \E l \in Layers \ drawn :
          LET support_layer == SupportLayer(l)
              floor_layer == FloorLayer(l, support_layer)
              parts == IF support_bottom_enable
                       THEN difference(support_layer, offset(floor_layer, floor_offset))
                       ELSE support_layer
          IN  /\ support_roof' = [support_roof EXCEPT ![l] = RoofLayer(l)]
              /\ support_bottom' = [support_bottom EXCEPT
                                       ![l] = IF support_bottom_enable THEN floor_layer ELSE @]
              /\ support_infill_parts' = [support_infill_parts EXCEPT ![l] = @ \cup parts]
              /\ layer_nr_max_filled_layer' =
                     IF support_infill_parts'[l] # {} \/ support_roof'[l] # {}
                     THEN l
                     ELSE layer_nr_max_filled_layer
              /\ drawn' = drawn \cup {l}
              /\ pc' = IF drawn' = Layers THEN "done" ELSE pc
              /\ generated' = (drawn' = Layers)
    /\ UNCHANGED <<outlines, fields, contact_settings, contact_nodes, support_rests_on_model,
                   drop_state, descents, support_bottom_enable>>

\* one iteration of the parallel loop over the layers; the iterations share only
\* layer_nr_max_filled_layer, which is updated inside a critical section
drawLayer ==
    /\ pc = "drawLayers"
    /\ \E l \in Layers \ drawn :
          LET support_layer == SupportLayer(l)
              floor_layer == FloorLayer(l, support_layer)
              parts == IF support_bottom_enable
                       THEN difference(support_layer, offset(floor_layer, floor_offset))
                       ELSE support_layer
          IN  /\ support_roof' = [support_roof EXCEPT ![l] = RoofLayer(l)]
              /\ support_bottom' = [support_bottom EXCEPT
                                       ![l] = IF support_bottom_enable THEN floor_layer ELSE @]
              /\ support_infill_parts' = [support_infill_parts EXCEPT ![l] = @ \cup parts]
              /\ layer_nr_max_filled_layer' =
                     IF support_infill_parts'[l] # {} \/ support_roof'[l] # {}
                     THEN MaxOf(layer_nr_max_filled_layer, l)
                     ELSE layer_nr_max_filled_layer
              /\ drawn' = drawn \cup {l}
              /\ pc' = IF drawn' = Layers THEN "done" ELSE pc
              /\ generated' = (drawn' = Layers)
    /\ UNCHANGED <<outlines, fields, contact_settings, contact_nodes, support_rests_on_model,
                   drop_state, descents, support_bottom_enable>>

Next ==
    \/ collisionAreas
    \/ propagateCollisionAreas
    \/ internalGuide
    \/ generateContactPoints
    \/ dropNodes
    \/ dropLayer
    \/ firstPass
    \/ secondPass
    \/ drawCircles
    \/ drawLayer

Spec == Init /\ [][Next]_vars

\* generateSupportAreas up to the internal guide: the construction of the fields
NextFields ==
    \/ collisionAreas
    \/ propagateCollisionAreas
    \/ internalGuide

SpecFields == Init /\ [][NextFields]_vars

\* generateSupportAreas on the prints with the ledge
SpecLedge == InitLedge /\ [][Next]_vars

(***************************************************************************)
(* Properties of dropNodes.                                                *)
(***************************************************************************)
\* dropNodes has run over all the layers
DropDone == pc \in {"drawCircles", "drawLayers", "done"}

\* the tips generateContactPoints seeded on a layer
Tips(l) == {n \in contact_nodes[l] : n.distance_to_top = 0}

\* C1: every node that dropNodes descends, by the dyad merge of pass 1 or by pass 2,
\* in bucket 0 or in a model-resting bucket, produces a child at most
\* maximum_move_distance + collision_resolution + 100 away from it.
C1_MoveBound ==
    \A d \in descents :
        Abs(d.next_node.position - d.node.position)
            <= maximum_move_distance + radius_sample_resolution + rounding_margin

\* no avoidance area of the layers 0 .. l touches the stretch from lo to hi
Clear(lo, hi, l) ==
    \A s \in Samples : \A k \in 0 .. l : \A i \in model_avoidance[s][k] : i[2] < lo \/ hi < i[1]

\* the number of layers after which two branches D apart have met, each moving
\* maximum_move_distance per layer
MergeLayers(D) == round_up_divide(D, 2 * maximum_move_distance)

\* C2: two tips seeded on the same layer, D apart, with no avoidance area near
\* them, are the only tips of the print, and D is an odd multiple of
\* maximum_move_distance, as the 3 mm (15 moves of 0.2 mm) of scenario S2 are: once
\* dropNodes has run, every layer that lies ceil(D / (2 * maximum_move_distance))
\* layers or more below them holds exactly one node, whose distance_to_top is that
\* of the two branches.
C2_TwoTipsMerge ==
    \A l \in Layers : \A a, b \in Positions(Tips(l)) :
        (/\ DropDone
         /\ a < b
         /\ Positions(Tips(l)) = {a, b}
         /\ \A k \in Layers \ {l} : Tips(k) = {}
         /\ Clear(a, b, l)
         /\ (b - a) % (2 * maximum_move_distance) = maximum_move_distance
         /\ MergeLayers(b - a) <= l)
        => \A k \in 0 .. (l - MergeLayers(b - a)) :
              \E n \in contact_nodes[k] :
                  contact_nodes[k] = {n} /\ n.distance_to_top = l - k

\* C3: in every step of dropNodes that descends a node, the node stored for the
\* layer below has a distance_to_top that is not smaller than the node's, and a
\* support_roof_layers_below that is exactly one less than the node's, unless a
\* node was already stored at that position: then it holds the maximum of the
\* old and the new values.
C3_DescentStep ==
    [][\A d \in descents' \ descents :
          LET old == contact_nodes[d.layer - 1]
              stored == NodeAt(contact_nodes'[d.layer - 1], d.next_node.position)
          IN  /\ stored.distance_to_top >= d.node.distance_to_top
              /\ IF d.next_node.position \in Positions(old)
                 THEN LET conflicting_node == NodeAt(old, d.next_node.position)
                      IN  /\ stored.distance_to_top =
                                 MaxOf(conflicting_node.distance_to_top,
                                       d.node.distance_to_top + 1)
                          /\ stored.support_roof_layers_below =
                                 MaxOf(conflicting_node.support_roof_layers_below,
                                       d.node.support_roof_layers_below - 1)
                 ELSE /\ stored.distance_to_top = d.node.distance_to_top + 1
                      /\ stored.support_roof_layers_below =
                             d.node.support_roof_layers_below - 1]_vars

\* C3 happens: two descents of one layer ended on the same position, and another
\* descent ended on a position of its own
C3_Witness ==
    /\ \E d, e \in descents :
          /\ d # e /\ d.layer = e.layer
          /\ d.next_node.position = e.next_node.position
    /\ \E d \in descents :
          \A e \in descents \ {d} :
              e.layer = d.layer => e.next_node.position # d.next_node.position

\* C4: in every layer of contact nodes, at every point of the run, a node's
\* to_buildplate flag is true exactly when its position is outside the
\* avoidance area of its layer, for the radius sample of the node.
C4_ToBuildplate ==
    \A l \in Layers : \A n \in contact_nodes[l] :
        n.to_buildplate <=>
            ~ inside(model_avoidance[branch_radius_sample(n.distance_to_top)][l],
                     n.position, FALSE)

\* C5: support may not rest on the model, and the only overhang of the print
\* lies above another part of the model, with every tip seeded for it inside the
\* avoidance area: when drawCircles is done, no layer holds support or roof.
C5_ShadowedOverhang ==
    \A l \in ContactLayers :
        (/\ pc = "done"
         /\ ~ support_rests_on_model
         /\ Tips(l) # {}
         /\ \A k \in Layers \ {l} : Tips(k) = {}
         /\ \A part \in overhang_areas(l + z_distance_top_layers) :
               \E k \in 0 .. (l - 1) : \E o \in outlines[k] :
                   o[1] <= part[1] /\ part[2] <= o[2]
         /\ \A n \in Tips(l) : inside(model_avoidance[0][l], n.position, FALSE))
        => \A k \in Layers : support_infill_parts[k] = {} /\ support_roof[k] = {}

\* C6: when support may not rest on the model, a node whose to_buildplate flag is
\* false is in no bucket of its layer and no node of the layer below is built
\* from it.
C6_NoDescentOffPlate ==
    ~ support_rests_on_model =>
        /\ \A d \in descents : d.node.to_buildplate
        /\ pc \in {"pass1", "pass2"} =>
              \A g \in DOMAIN nodes_per_part : \A n \in nodes_per_part[g] : n.to_buildplate

\* C6 happens: dropNodes, not allowed to rest on the model, has run over a layer
\* above layer 0 that holds a node whose to_buildplate flag is false
C6_Witness ==
    /\ DropDone
    /\ ~ support_rests_on_model
    /\ \E l \in Layers \ {0} : \E n \in contact_nodes[l] : ~ n.to_buildplate

\* C7: with the roof enabled and k layers high, a node that is k or more layers
\* below its tip, and that overlaps no node of its layer less than k layers below
\* its tip, leaves nothing in the roof of its layer; a node less than k layers
\* below its tip leaves nothing in the support of its layer.
C7_RoofLayers ==
    (pc = "done" /\ support_roof_enable) =>
        LET k == round_divide(support_roof_height, layer_height)
        IN  \A l \in Layers : \A n \in contact_nodes[l] :
                IF n.distance_to_top >= k
                THEN (\A m \in contact_nodes[l] :
                         m.distance_to_top < k => intersection({Circle(n)}, {Circle(m)}) = {})
                     => intersection({Circle(n)}, support_roof[l]) = {}
                ELSE intersection({Circle(n)}, support_infill_parts[l]) = {}

(***************************************************************************)
(* Properties of the collision, avoidance and internal guide areas.        *)
(***************************************************************************)
\* generateSupportAreas has built the three fields
FieldsBuilt == pc \notin {"collisionAreas", "propagateCollisionAreas", "internalGuide"}

\* every vertex of every area is a multiple of xy_distance: the points of the
\* print volume halfway between two such multiples lie on no border
MidProbes == {p \in machine_min .. machine_max : p % xy_distance = xy_distance \div 2}

\* every point of A is a point of B
Subset(A, B) == \A a \in Normalise(A) : \E b \in Normalise(B) : b[1] <= a[1] /\ a[2] <= b[2]

RECURSIVE CanReach(_, _)
\* the probes of layer l from which a path descends to layer 0 that moves at most
\* maximum_move_distance per layer and stays outside the collision areas of
\* radius sample s
CanReach(s, l) ==
    LET free == {p \in MidProbes : ~ inside(model_collision[s][l], p, TRUE)}
    IN  IF l = 0 THEN free
        ELSE LET below == CanReach(s, l - 1)
             IN  {p \in free : \E q \in below : Abs(p - q) <= maximum_move_distance}

\* C8: when propagateCollisionAreas has run, a point that lies on no border is
\* outside the avoidance area of a layer and radius sample exactly when a path
\* descends from it to layer 0 that moves at most maximum_move_distance per layer
\* and is outside the collision area of every layer it passes.
C8_Reachability ==
    FieldsBuilt =>
        \A s \in Samples : \A l \in Layers :
            LET reach == CanReach(s, l)
            IN  \A p \in MidProbes :
                    ~ inside(model_avoidance[s][l], p, TRUE) <=> p \in reach

\* C8 happens: a point outside the collision area of its layer has no path down
C8_Witness ==
    /\ FieldsBuilt
    /\ \E s \in Samples : \E l \in Layers : \E p \in MidProbes :
          /\ ~ inside(model_collision[s][l], p, TRUE)
          /\ inside(model_avoidance[s][l], p, TRUE)

\* C9 as stated: the avoidance area of a layer, eroded by maximum_move_distance,
\* lies within the avoidance area of the layer below.
C9_ErodedWithinBelow ==
    FieldsBuilt =>
        \A s \in Samples : \A l \in Layers \ {0} :
            Subset(offset(model_avoidance[s][l], -maximum_move_distance),
                   model_avoidance[s][l - 1])

\* C9, amended: the avoidance area of a layer, eroded by maximum_move_distance,
\* lies within the avoidance area of the layer above.
C9_ErodedWithinAbove ==
    FieldsBuilt =>
        \A s \in Samples : \A l \in Layers \ {0} :
            Subset(offset(model_avoidance[s][l - 1], -maximum_move_distance),
                   model_avoidance[s][l])

\* C9 happens: the eroded avoidance area of a layer reaches beyond the collision
\* area of the layer above
C9_Witness ==
    /\ FieldsBuilt
    /\ \E s \in Samples : \E l \in Layers \ {0} :
          ~ Subset(offset(model_avoidance[s][l - 1], -maximum_move_distance),
                   model_collision[s][l])

\* C10: when the fields are built, the collision area of every layer and radius
\* sample lies within its avoidance area, and the internal guide holds exactly
\* the points of the avoidance area that are not in the collision area.
C10_GuideIsAvoidanceLessCollision ==
    FieldsBuilt =>
        \A s \in Samples : \A l \in Layers :
            /\ Subset(model_collision[s][l], model_avoidance[s][l])
            /\ \A p \in MidProbes :
                  inside(model_internal_guide[s][l], p, FALSE) <=>
                      /\ inside(model_avoidance[s][l], p, FALSE)
                      /\ ~ inside(model_collision[s][l], p, FALSE)

\* C10 happens: some internal guide is not empty
C10_Witness ==
    /\ FieldsBuilt
    /\ \E s \in Samples : \E l \in Layers : model_internal_guide[s][l] # {}

(***************************************************************************)
(* Properties of insertDroppedNode and of the order of iteration.          *)
(***************************************************************************)
\* C11: every step of dropNodes that inserts a node into the layer below is an
\* upsert by position: a node on a free position is added as it is; on a taken
\* position the layer keeps one node, with the maximum of the old and the new
\* distance_to_top and support_roof_layers_below and with the to_buildplate and
\* skin_direction of the node that was stored; no other node of the layer changes.
C11_Upsert ==
    [][\A d \in descents' \ descents :
          LET old == contact_nodes[d.layer - 1]
              new == contact_nodes'[d.layer - 1]
              at == d.next_node.position
              others(nodes) == {n \in nodes : n.position # at}
              here == {n \in new : n.position = at}
          IN  /\ others(new) = others(old)
              /\ Cardinality(here) = 1
              /\ \A l \in Layers \ {d.layer - 1} : contact_nodes'[l] = contact_nodes[l]
              /\ \A stored \in here :
                    IF at \notin Positions(old)
                    THEN stored = d.next_node
                    ELSE \E conflicting_node \in old :
                            /\ conflicting_node.position = at
                            /\ stored.distance_to_top =
                                   MaxOf(conflicting_node.distance_to_top,
                                         d.next_node.distance_to_top)
                            /\ stored.support_roof_layers_below =
                                   MaxOf(conflicting_node.support_roof_layers_below,
                                         d.next_node.support_roof_layers_below)
                            /\ stored.to_buildplate = conflicting_node.to_buildplate
                            /\ stored.skin_direction = conflicting_node.skin_direction]_vars

\* C11 happens: a node was inserted on a position that held a node built from
\* another node, with another distance_to_top
C11_Witness ==
    \E d, e \in descents :
        /\ d.layer = e.layer
        /\ d.next_node.position = e.next_node.position
        /\ d.next_node.distance_to_top # e.next_node.distance_to_top

\* dropNodes with every bucket iterated in the order of the positions, in both passes:
\* one of the orders the unordered containers can be iterated in
RECURSIVE OrderedFirstPass(_, _, _, _, _)
OrderedFirstPass(rest, group, g, l, acc) ==
    IF rest = {} THEN acc
    ELSE LET position == Min(rest)
             points == Positions(group)
             node == NodeAt(group, position)
             neighbours == adjacentNodes(points, position)
             after == IF position \in acc.to_delete THEN acc
                      ELSE IF IsDyad(points, position)
                      THEN [acc EXCEPT !.below =
                               insertDroppedNode(@, MergedNode(node, CHOOSE q \in neighbours : TRUE,
                                                               g, l))]
                      ELSE IF Cardinality(neighbours) > 1
                      THEN [acc EXCEPT !.to_delete = @ \cup TooClose(points, position)]
                      ELSE acc
         IN  OrderedFirstPass(rest \ {position}, group, g, l, after)

RECURSIVE OrderedSecondPass(_, _, _, _, _)
OrderedSecondPass(rest, group, g, l, acc) ==
    IF rest = {} THEN acc
    ELSE LET position == Min(rest)
             node == NodeAt(group, position)
             after == IF position \in acc.to_delete \/ TooFarInside(node, g, l) THEN acc
                      ELSE [acc EXCEPT !.below =
                               insertDroppedNode(@, MovedNode(node, Positions(group), g, l))]
         IN  OrderedSecondPass(rest \ {position}, group, g, l, after)

RECURSIVE OrderedGroups(_, _, _, _)
OrderedGroups(g, groups, l, below) ==
    IF g \notin DOMAIN groups THEN below
    ELSE LET start == [below |-> below, to_delete |-> {}]
             first == OrderedFirstPass(Positions(groups[g]), groups[g], g, l, start)
             second == OrderedSecondPass(Positions(groups[g]), groups[g], g, l, first)
         IN  OrderedGroups(g + 1, groups, l, second.below)

RECURSIVE OrderedLayers(_, _)
OrderedLayers(l, nodes) ==
    IF l <= 0 THEN nodes
    ELSE LET groups == GroupNodes(nodes[l], l, support_rests_on_model)
         IN  OrderedLayers(l - 1,
                           [nodes EXCEPT ![l - 1] = OrderedGroups(0, groups, l, nodes[l - 1])])

OrderedDrop ==
    OrderedLayers(MaxLayers - 1,
                  [l \in Layers |->
                      ContactNodes(l, point_spread,
                                   SupportRoofLayers(support_roof_enable, support_roof_height))])

\* C12: the nodes of every layer after dropNodes, positions and payload, do not
\* depend on the order in which the nodes and the buckets are iterated: every run
\* ends with the nodes of the run that iterates in the order of the positions.
C12_Deterministic == DropDone => contact_nodes = OrderedDrop

(* Properties of drawCircles. *)
\* the layers whose rendering has a collision area to keep the Z distance from
WithCollisionLayer == {l \in Layers : z_collision_layer(l) < MaxLayers}

Repropagated ==
    [s \in Samples |->
        LET column == Avoidance(model_avoidance[s], MaxLayers - 1)
        IN  [l \in Layers |-> column[l + 1]]]

\* C14: propagateCollisionAreas, given the avoidance field it has built as its
\* collision input, returns that field: the same area for every radius sample and
\* every layer.
C14_PropagationIdempotent == FieldsBuilt => Repropagated = model_avoidance

\* C14 happens: the propagated field differs from the collision field it was built
\* from, in a layer where the eroded layer below adds area
C14_Witness ==
    /\ FieldsBuilt
    /\ \E s \in Samples, l \in Layers : model_avoidance[s][l] # model_collision[s][l]

\* the layers that hold support or support roof
Filled == {l \in Layers : support_infill_parts[l] # {} \/ support_roof[l] # {}}

\* the output slots of a layer
Slots(l) == <<support_infill_parts[l], support_roof[l], support_bottom[l]>>

\* C15: in every order in which the iterations of the parallel loop run,
\* layer_nr_max_filled_layer, which starts below every layer, is the highest layer
\* rendered so far that holds support or support roof, and an iteration changes
\* the output slots of one layer only, the layer it renders.
C15_MaxFilledLayer ==
    /\ [](layer_nr_max_filled_layer = Max({-1} \cup (Filled \cap drawn)))
    /\ [][\A l \in Layers : Slots(l)' # Slots(l) => drawn' = drawn \cup {l} /\ l \notin drawn]_vars

\* C15 happens: the loop has ended with support on two layers at least
C15_Witness ==
    /\ pc = "done"
    /\ Cardinality(Filled) >= 2
    /\ layer_nr_max_filled_layer = Max(Filled)

(* Properties of the two passes of dropNodes. *)
\* C16: a node of a near-collapsing dyad, from which pass 1 builds the merged node
\* at the average position, builds no node of its own in pass 2: the layer below
\* receives from the dyad the merged node only.
C16_DyadFades ==
    \A d \in descents :
        d.pass = 1 =>
            ~ \E e \in descents :
                  /\ e.pass = 2
                  /\ e.layer = d.layer
                  /\ e.group = d.group
                  /\ e.node = d.node

\* the bucket a descent was built from
BucketOf(d) == GroupNodes(contact_nodes[d.layer], d.layer, support_rests_on_model)[d.group]

\* the nodes that pass 1 has merged into the node of a descent of pass 2: the
\* node has several neighbours and was not deleted, so pass 1 has merged every
\* neighbour that is too close into it
AbsorbedBy(d) ==
    LET points == Positions(BucketOf(d))
    IN  IF d.pass = 2 /\ Cardinality(adjacentNodes(points, d.node.position)) > 1
        THEN {NodeAt(BucketOf(d), q) : q \in TooClose(points, d.node.position)}
        ELSE {}

\* C17: a neighbour that pass 1 merges into a node with several neighbours builds
\* no node on the layer below, and the node built from the node it was merged into
\* has the distance_to_top of the two nodes' maximum plus one and the
\* support_roof_layers_below of their maximum minus one.
C17_AbsorbFoldsPayload ==
    \A d \in descents :
        \A q \in AbsorbedBy(d) :
            /\ ~ \E e \in descents : e.layer = d.layer /\ e.group = d.group /\ e.node = q
            /\ d.next_node.distance_to_top =
                   MaxOf(d.node.distance_to_top, q.distance_to_top) + 1
            /\ d.next_node.support_roof_layers_below =
                   MaxOf(d.node.support_roof_layers_below, q.support_roof_layers_below) - 1

C19_NoRoofWhenDisabled ==
    (pc = "done" /\ ~ support_roof_enable) => \A l \in Layers : support_roof[l] = {}

\* C20: after generateContactPoints every tip of a layer l, the fallback tip of a
\* part without accepted candidate included, lies outside collision[0][l] and has
\* the skin_direction (l + z_distance_top_layers) mod 2, and every part of the
\* overhang above an inspected layer has a tip on it.
C20_TipsPlaced ==
    pc = "dropNodes" =>
        \A l \in ContactLayers :
            /\ \A tip \in contact_nodes[l] :
                  /\ ~ inside(model_collision[0][l], tip.position, TRUE)
                  /\ tip.skin_direction = (l + z_distance_top_layers) % 2
            /\ \A overhang_part \in overhang_areas(l + z_distance_top_layers) :
                  \E tip \in contact_nodes[l] : inside({overhang_part}, tip.position, TRUE)

====
